---- MODULE Spec2Model ----
(***************************************************************************)
(* The vertical aggregation cell of                                        *)
(* notebooks/pyart/answer_question_pyart_meteoswiss.ipynb:                 *)
(*                                                                         *)
(*   weighting  = np.exp(-0.5 * cappi_qpe.z['data'] / 1000)                *)
(*   qpe_ground = weighting[:,None,None] * cappi_qpe.fields[...]['data']   *)
(*   qpe_ground = np.nansum(qpe_ground, axis = 0) / np.sum(weighting)      *)
(*                                                                         *)
(* Each execution of the cell is an invocation with its own namespace; its *)
(* inputs are the field data, the level altitudes and the decay scale.     *)
(* Floating-point numbers are modelled as fixed-point integers or NaN;     *)
(* weights carry four decimals (10000 is the weight 1.0); the final        *)
(* quotient is kept as an exact fraction in lowest terms, or nan / inf.    *)
(***************************************************************************)
EXTENDS Integers, Sequences, FiniteSets

\* Largest number of vertical levels (and of altitudes) of an input.
MaxNz == 3

\* Number of levels of the inputs of the two-invocation specification.
ParNz == 2

\* Largest number of executions of the cell in one kernel.
MaxCalls == 4

\* Largest number of radar files that match a glob pattern.
MaxFiles == 20

\* The decay scale of the cell, in metres.
DefaultScale == 1000

\* The invocations: each has its own inputs and runs the three statements.
Inv == {"a", "b"}

\* The horizontal cells (i, j) of a grid of shape (nz, 1, 2).
Cells == {<<1, 1>>, <<1, 2>>}

---------------------------------------------------------------------------
\* Floating-point values: a number (fixed point) or not-a-number.

NaN == [nan |-> TRUE, v |-> 0]

Num(x) == [nan |-> FALSE, v |-> x]

\* a * b of two floats: not-a-number if either operand is.
Mul(a, b) == IF a.nan \/ b.nan THEN NaN ELSE Num(a.v * b.v)

\* 10000 * e^(m/8), rounded, for m = -24 .. 24 (np.exp on the lattice of
\* exponents the inputs produce).
ExpTab ==
  << 498, 564, 639, 724, 821, 930, 1054, 1194, 1353, 1534, 1738, 1969,
     2231, 2528, 2865, 3247, 3679, 4169, 4724, 5353, 6065, 6873, 7788, 8825,
     10000,
     11331, 12840, 14550, 16487, 18682, 21170, 23989, 27183, 30802, 34903,
     39551, 44817, 50784, 57546, 65208, 73891, 83729, 94877, 107510, 121825,
     138046, 156426, 177254, 200855 >>

Exp8(m) == ExpTab[m + 25]

\* The exponent -0.5 * alt / sc in eighths, for sc # 0.
Exponent8(alt, sc) ==
  IF sc > 0 THEN -((4 * alt) \div sc) ELSE (4 * alt) \div (-sc)

\* Variant: the exponent with the wrong sign, exp(+0.5 * alt / sc).
WeightBuggySign(alt, sc) ==
  IF sc = 0
    THEN (IF alt = 0 THEN NaN ELSE Num(0))
    ELSE Num(Exp8(-Exponent8(alt, sc)))

\* Variant: the magnitude of the scale, exp(-0.5 * alt / abs(sc)).
WeightAbsScale(alt, sc) ==
  IF sc = 0
    THEN (IF alt = 0 THEN NaN ELSE Num(0))
    ELSE Num(Exp8(-((4 * alt) \div (IF sc > 0 THEN sc ELSE -sc))))

\* np.exp(-0.5 * alt / sc).  Dividing by sc = 0 raises nothing on an
\* array: -0.5 * alt / 0 is -inf for alt > 0 and nan for alt = 0, and
\* exp(-inf) = 0.
Weight(alt, sc) ==
  IF sc = 0
    THEN (IF alt = 0 THEN NaN ELSE Num(0))
    ELSE Num(Exp8(Exponent8(alt, sc)))

\* weighting = np.exp(-0.5 * z / sc): one weight per altitude.
Weighting(zs, sc) == [k \in 1..Len(zs) |-> Weight(zs[k], sc)]

---------------------------------------------------------------------------
\* weighting[:,None,None] * data: broadcasting of shape (na,1,1) against
\* shape (nz,ny,nx).

\* Variant: shapes must agree exactly.
BroadcastableStrict(na, nz) == na = nz

\* Shapes (na,1,1) and (nz,ny,nx) broadcast when the leading axes agree or
\* one of them is 1.
Broadcastable(na, nz) == na = nz \/ na = 1 \/ nz = 1

\* The number of levels of the broadcast product.
BroadcastLen(na, nz) == IF na = 1 THEN nz ELSE IF nz = 1 THEN na ELSE nz

WeightedProduct(w, g) ==
  [k \in 1..BroadcastLen(Len(w), Len(g)) |->
     [c \in Cells |->
        Mul(w[IF Len(w) = 1 THEN 1 ELSE k], g[IF Len(g) = 1 THEN 1 ELSE k][c])]]

---------------------------------------------------------------------------
\* np.nansum(..., axis = 0) / np.sum(weighting)

\* Variant of np.nansum: np.sum, not-a-number propagates.
RECURSIVE SumPropagating(_)
SumPropagating(s) ==
  IF s = <<>> THEN Num(0)
  ELSE LET r == SumPropagating(Tail(s))
       IN  IF Head(s).nan \/ r.nan THEN NaN ELSE Num(Head(s).v + r.v)

\* np.nansum of a sequence of floats: not-a-number counts as zero; the
\* sum of no element is 0.
RECURSIVE NanSum(_)
NanSum(s) ==
  IF s = <<>> THEN Num(0)
  ELSE LET r == NanSum(Tail(s))
       IN  IF Head(s).nan THEN r ELSE Num(Head(s).v + r.v)

\* np.sum of a sequence of floats: not-a-number propagates.
RECURSIVE Sum(_)
Sum(s) ==
  IF s = <<>> THEN Num(0)
  ELSE LET r == Sum(Tail(s))
       IN  IF Head(s).nan \/ r.nan THEN NaN ELSE Num(Head(s).v + r.v)

RECURSIVE GCD(_, _)
GCD(a, b) == IF b = 0 THEN a ELSE GCD(b, a % b)

QNaN == [k |-> "nan", n |-> 0, d |-> 1]

QInf == [k |-> "inf", n |-> 1, d |-> 0]

QUnset == [k |-> "unset", n |-> 0, d |-> 1]

\* The quotient n / d, d > 0, n >= 0, in lowest terms.
Frac(n, d) == LET g == GCD(n, d) IN [k |-> "num", n |-> n \div g, d |-> d \div g]

\* Variant: a zero divisor yields 0.
DivideZeroSafe(a, b) ==
  IF a.nan \/ b.nan THEN QNaN
  ELSE IF b.v = 0 THEN Frac(0, 1)
  ELSE Frac(a.v, b.v)

\* a / b of two non-negative floats: 0/0 and anything with a nan is nan,
\* x/0 is inf (a warning, no error).
Divide(a, b) ==
  IF a.nan \/ b.nan THEN QNaN
  ELSE IF b.v = 0 THEN (IF a.v = 0 THEN QNaN ELSE QInf)
  ELSE Frac(a.v, b.v)

\* The column of a 3-D array at horizontal cell c.
Column(levels, c) == [k \in 1..Len(levels) |-> levels[k][c]]

\* Sum of the weights of the levels at which the column is defined.
RECURSIVE DefinedWeightSum(_, _)
DefinedWeightSum(w, col) ==
  IF w = <<>> \/ col = <<>> THEN Num(0)
  ELSE LET r == DefinedWeightSum(Tail(w), Tail(col))
       IN  IF Head(col).nan THEN r
           ELSE IF Head(w).nan \/ r.nan THEN NaN ELSE Num(Head(w).v + r.v)

\* Variant: normalise by the weights of the defined levels only.
ReduceCellDefinedOnly(w, col) == Divide(NanSum(col), DefinedWeightSum(w, col))

\* Variant: normalise by the number of levels.
ReduceCellMean(w, col) ==
  Divide(NanSum(col), Num(Len(col) * Exp8(0)))

\* One cell of np.nansum(prod, axis = 0) / np.sum(weighting).
ReduceCell(w, col) == Divide(NanSum(col), Sum(w))

\* The columns of the cells S, one after the other.
RECURSIVE Columns(_, _)
Columns(levels, S) ==
  IF S = {} THEN <<>>
  ELSE LET c == CHOOSE x \in S : TRUE
       IN  Column(levels, c) \o Columns(levels, S \ {c})

\* Variant: the sum runs over every axis, np.nansum(prod), so that every
\* cell holds the total of all cells.
ReduceAllAxes(w, prod) ==
  [c \in Cells |-> Divide(NanSum(Columns(prod, Cells)), Sum(w))]

\* np.nansum(prod, axis = 0) / np.sum(weighting): one value per cell.
Reduce(w, prod) == [c \in Cells |-> ReduceCell(w, Column(prod, c))]

SurfaceUnset == [c \in Cells |-> QUnset]

---------------------------------------------------------------------------
\* The inputs of an invocation.

\* Grid values: undefined, 0 and 10 (mm/h).
Vals == {NaN, Num(0), Num(10)}

\* Grids of n levels over the horizontal cells.
GridsOf(n) == [1..n -> [Cells -> Vals]]

\* The vertical axis of a gridded volume: first level and level spacing (m).
\* The notebook grids from zmin = 500 in steps of cappi_res_v; the axes
\* here start at 0 or at 500 and are spaced 1000 m, so that the weights of
\* neighbouring levels differ in the second decimal.
ZAxes == {[zmin |-> 0, res |-> 1000], [zmin |-> 500, res |-> 1000]}

\* The altitudes of n levels: level k lies at zmin + (k-1) * res.
Altitudes(ax, n) == [k \in 1..n |-> ax.zmin + (k - 1) * ax.res]

\* Decay scales: the divisor of line 1 of the cell, taken as the call's
\* input: the cell's 1000, a larger one, and the non-positive 0 and -1000.
Scales == {DefaultScale, 2 * DefaultScale, 0, -DefaultScale}

---------------------------------------------------------------------------
VARIABLES
  pc,          \* pc[p]: the statement invocation p executes next
  grid,        \* grid[p]: cappi_qpe.fields[...]['data'], levels of cells
  z,           \* z[p]: cappi_qpe.z['data'], the level altitudes
  scale,       \* scale[p]: the decay scale
  weighting,   \* weighting[n]: the weight vector bound in namespace n
  qpe_levels,  \* qpe_levels[n]: qpe_ground as first bound (weighted levels)
  qpe_ground,  \* qpe_ground[n]: qpe_ground as finally bound (the surface)
  err,         \* err[p]: the exception that ended invocation p, if any
  log,         \* the earlier executions of the cell in the kernel of "a":
               \* inputs and returned surface, oldest first
  cell,        \* the statement the notebook kernel executes next
  files_radar, \* sorted(glob.glob(...)): the file names, ascending
  idx,         \* i of "for i, f in enumerate(...)"
  radar,       \* the radar object read last
  radar_merged,\* the radar object the merge loop builds
  corr_vel,    \* the field dictionary dealias_region_based returned last
  vad,         \* the profile vad_browning returned last
  u_allsweeps, \* list of the u_wind of every processed sweep
  v_allsweeps, \* list of the v_wind of every processed sweep
  u_avg,       \* np.nanmean of u_allsweeps at every level, in tenths of m/s
  v_avg,       \* np.nanmean of v_allsweeps at every level, in tenths of m/s
  orientation, \* wind direction at every level, in tenths of a degree
  speed,       \* wind speed at every level, in tenths of m/s
  plotted,     \* what the wind-speed axes show: x and y data, x label
  out,         \* the call of calculate_attenuation_zphi that returned out
  limits,      \* zmin, zmax, xmin, xmax, ymin, ymax of the CAPPI, m
  res,         \* cappi_res_h and cappi_res_v, m
  shape,       \* nz, ny, nx
  cappi,       \* the coordinates of the grid grid_from_radars returned
  shown,       \* the altitudes of the levels plot_grid has drawn
  trace        \* the library calls made so far, as <<call, file>>, in order

\* The names of the aggregation cell.
aggVars == <<pc, grid, z, scale, weighting, qpe_levels, qpe_ground, err>>

\* What the statements of the aggregation cell leave alone.
loopVars ==
  <<files_radar, idx, radar, radar_merged, corr_vel, vad,
    u_allsweeps, v_allsweeps, trace>>

profileVars == <<u_avg, v_avg, orientation, speed, plotted>>

cappiVars == <<limits, res, shape, cappi, shown>>

nbVars == <<cell, loopVars, profileVars, out, cappiVars>>

others == <<log, nbVars>>

\* A field dictionary that is not there.  A field holds one velocity per
\* sweep in data; of names the file each velocity was computed from.
NoField == [data |-> <<>>, of |-> <<>>, bound |-> FALSE]

\* A name that is not bound to a radar object yet.  A radar object holds
\* its sweeps, each with the file it was read from, its measured radial
\* velocity and the number of Nyquist intervals the velocity is folded by,
\* the fields added to it, and whether a corrected reflectivity is among
\* them.
NoRadar == [sweeps |-> <<>>, altitude |-> 0, corrected_velocity |-> NoField,
            corrected_reflectivity |-> FALSE,
            corrected_velocity_neg |-> NoField, bound |-> FALSE]

\* No attenuation has been computed.
NoCall == [fzl |-> 0, phidp_field |-> "", temp_ref |-> "", sweeps |-> 0]

NoVad == [u_wind |-> <<>>, v_wind |-> <<>>, of |-> 0, bound |-> FALSE]

\* The kernel before the cell that globs the files: no name is bound.
NbIdle ==
  /\ cell = "idle"
  /\ files_radar = <<>>
  /\ idx = 0
  /\ radar = NoRadar
  /\ radar_merged = NoRadar
  /\ corr_vel = NoField
  /\ vad = NoVad
  /\ u_allsweeps = <<>>
  /\ v_allsweeps = <<>>
  /\ u_avg = <<>>
  /\ v_avg = <<>>
  /\ orientation = <<>>
  /\ speed = <<>>
  /\ plotted = [x |-> <<>>, y |-> <<>>, xlabel |-> ""]
  /\ out = NoCall
  /\ limits = [zmin |-> 0, zmax |-> 0, xmin |-> 0, xmax |-> 0, ymin |-> 0, ymax |-> 0]
  /\ res = [h |-> 0, v |-> 0]
  /\ shape = [nz |-> 0, ny |-> 0, nx |-> 0]
  /\ cappi = [z |-> <<>>, y |-> <<>>, x |-> <<>>]
  /\ shown = <<>>
  /\ trace = <<>>

vars == <<aggVars, others>>

\* Nothing but the aggregation cell has run.
OthersIdle == log = <<>> /\ NbIdle

\* Variant: every invocation binds its names in the one namespace "a".
NsShared(p) == "a"

\* The namespace in which invocation p binds weighting and qpe_ground:
\* its own.
Ns(p) == p

TypeOK ==
  /\ pc \in [Inv -> {"idle", "weights", "product", "reduce", "done", "failed"}]
  /\ err \in [Inv -> {"none", "ValueError"}]
  /\ scale \in [Inv -> Scales]

\* No statement has run yet; invocation p has inputs in[p] if p is in run.
Bind(run, in) ==
  /\ pc = [p \in Inv |-> IF p \in run THEN "weights" ELSE "idle"]
  /\ grid = [p \in Inv |-> in[p].grid]
  /\ z = [p \in Inv |-> in[p].z]
  /\ scale = [p \in Inv |-> in[p].scale]
  /\ weighting = [p \in Inv |-> <<>>]
  /\ qpe_levels = [p \in Inv |-> <<>>]
  /\ qpe_ground = [p \in Inv |-> SurfaceUnset]
  /\ err = [p \in Inv |-> "none"]

\* The kernel in which the invocations run start their cell: nothing else
\* has been executed.
Start(run, in) == Bind(run, in) /\ OthersIdle

NoInput == [grid |-> <<>>, z |-> <<>>, scale |-> DefaultScale]

\* One invocation, "a", on any input: any number of levels, any number of
\* altitudes, any scale.
Init ==
  \E nz \in 0..MaxNz, na \in 0..MaxNz, ax \in ZAxes, s \in Scales :
    \E g \in GridsOf(nz) :
      Start({"a"}, [p \in Inv |->
                      IF p = "a"
                        THEN [grid |-> g, z |-> Altitudes(ax, na), scale |-> s]
                        ELSE NoInput])

\* Variant: the weights are kept from the previous execution when their
\* number fits the altitudes.
ComputeWeightsCached(p) ==
  /\ pc[p] = "weights"
  /\ weighting' =
       IF weighting[Ns(p)] # <<>> /\ Len(weighting[Ns(p)]) = Len(z[p])
         THEN weighting
         ELSE [weighting EXCEPT ![Ns(p)] = Weighting(z[p], scale[p])]
  /\ pc' = [pc EXCEPT ![p] = "product"]
  /\ UNCHANGED <<grid, z, scale, qpe_levels, qpe_ground, err>>
  /\ UNCHANGED others

\* weighting = np.exp(-0.5 * cappi_qpe.z['data'] / 1000)
ComputeWeights(p) ==
  /\ pc[p] = "weights"
  /\ weighting' = [weighting EXCEPT ![Ns(p)] = Weighting(z[p], scale[p])]
  /\ pc' = [pc EXCEPT ![p] = "product"]
  /\ UNCHANGED <<grid, z, scale, qpe_levels, qpe_ground, err>>
  /\ UNCHANGED others

\* qpe_ground = weighting[:,None,None] * cappi_qpe.fields[...]['data']
\* Shapes that cannot be broadcast raise ValueError.
MultiplyLevels(p) ==
  /\ pc[p] = "product"
  /\ IF Broadcastable(Len(weighting[Ns(p)]), Len(grid[p]))
       THEN /\ qpe_levels' =
                 [qpe_levels EXCEPT ![Ns(p)] = WeightedProduct(weighting[Ns(p)], grid[p])]
            /\ pc' = [pc EXCEPT ![p] = "reduce"]
            /\ err' = err
       ELSE /\ pc' = [pc EXCEPT ![p] = "failed"]
            /\ err' = [err EXCEPT ![p] = "ValueError"]
            /\ qpe_levels' = qpe_levels
  /\ UNCHANGED <<grid, z, scale, weighting, qpe_ground>>
  /\ UNCHANGED others

\* Variant: the reduction with the undefined entries of the input zeroed
\* in place.
ReduceNormaliseInPlace(p) ==
  /\ pc[p] = "reduce"
  /\ qpe_ground' =
       [qpe_ground EXCEPT ![Ns(p)] = Reduce(weighting[Ns(p)], qpe_levels[Ns(p)])]
  /\ grid' = [grid EXCEPT ![p] =
                [k \in 1..Len(grid[p]) |->
                   [c \in Cells |-> IF grid[p][k][c].nan THEN Num(0) ELSE grid[p][k][c]]]]
  /\ pc' = [pc EXCEPT ![p] = "done"]
  /\ UNCHANGED <<z, scale, weighting, qpe_levels, err>>
  /\ UNCHANGED others

\* qpe_ground = np.nansum(qpe_ground, axis = 0) / np.sum(weighting)
ReduceNormalise(p) ==
  /\ pc[p] = "reduce"
  /\ qpe_ground' =
       [qpe_ground EXCEPT ![Ns(p)] = Reduce(weighting[Ns(p)], qpe_levels[Ns(p)])]
  /\ pc' = [pc EXCEPT ![p] = "done"]
  /\ UNCHANGED <<grid, z, scale, weighting, qpe_levels, err>>
  /\ UNCHANGED others

Next ==
  \E p \in Inv : ComputeWeights(p) \/ MultiplyLevels(p) \/ ReduceNormalise(p)

Spec == Init /\ [][Next]_vars

\* Two invocations, each on its own input of ParNz levels with one
\* altitude per level and the cell's scale; their statements interleave in
\* any order.
ParInputs ==
  { [grid |-> g, z |-> Altitudes(ax, ParNz), scale |-> DefaultScale] :
      g \in [1..ParNz -> [Cells -> {NaN, Num(10)}]], ax \in ZAxes }

InitPar == \E in \in [Inv -> ParInputs] : Start(Inv, in)

SpecPar == InitPar /\ [][Next]_vars

\* The cell executed again and again in the kernel of "a": before each
\* execution cappi_qpe is bound to a new gridded volume, while weighting and
\* qpe_ground stay bound to what the previous execution left.
\* The volume of n levels that holds 10 at the lowest level and is
\* undefined above it at cell (1, 1), and holds 10 everywhere at (1, 2).
SeqGrid(n) ==
  [k \in 1..n |->
     [c \in Cells |-> IF c = <<1, 1>> /\ k > 1 THEN NaN ELSE Num(10)]]

SeqInputs ==
  { [grid |-> SeqGrid(n), z |-> Altitudes([zmin |-> 0, res |-> 1000], n), scale |-> s] :
      n \in 1..ParNz, s \in {DefaultScale, 2 * DefaultScale} }

InitSeq ==
  \E i \in SeqInputs :
    Start({"a"}, [p \in Inv |-> IF p = "a" THEN i ELSE NoInput])

\* The record of a finished execution of p.
Finished(p) ==
  [grid |-> grid[p], z |-> z[p], scale |-> scale[p], surface |-> qpe_ground[Ns(p)]]

\* cappi_qpe = pyart.map.grid_from_radars(...), then the cell once more.
Rebind(p) ==
  /\ pc[p] = "done"
  /\ Len(log) + 1 < MaxCalls
  /\ log' = Append(log, Finished(p))
  /\ \E i \in SeqInputs :
       /\ grid' = [grid EXCEPT ![p] = i.grid]
       /\ z' = [z EXCEPT ![p] = i.z]
       /\ scale' = [scale EXCEPT ![p] = i.scale]
  /\ pc' = [pc EXCEPT ![p] = "weights"]
  /\ UNCHANGED <<weighting, qpe_levels, qpe_ground, err>>
  /\ UNCHANGED nbVars

NextSeq ==
  \/ \E p \in Inv : ComputeWeights(p) \/ MultiplyLevels(p) \/ ReduceNormalise(p)
  \/ Rebind("a")

SpecSeq == InitSeq /\ [][NextSeq]_vars

\* Two executions of the cell on the same altitudes with two decay
\* scales, to compare their weights.
\* The strictly increasing altitude axes of 2..MaxNz levels over
\* 0, 1000, 2000 and 3000 m.
IncreasingAxes ==
  { zs \in UNION { [1..n -> {0, 1000, 2000, 3000}] : n \in 2..MaxNz } :
      \A k \in 1..(Len(zs) - 1) : zs[k] < zs[k + 1] }

\* Positive decay scales: half the cell's 1000, 1000, and two and four
\* times as much.
PositiveScales ==
  {DefaultScale \div 2, DefaultScale, 2 * DefaultScale, 4 * DefaultScale}

InitScales ==
  \E zs \in IncreasingAxes : \E sc \in [Inv -> PositiveScales] :
    Start(Inv, [p \in Inv |-> [grid |-> SeqGrid(Len(zs)), z |-> zs, scale |-> sc[p]]])

SpecScales == InitScales /\ [][Next]_vars

\* Two executions of the cell on the same altitudes and scale, on two
\* gridded volumes that hold the same column at cell (1, 1) and any two
\* columns at cell (1, 2).
\* The volume g with its column at cell c replaced by col.
WithColumn(g, c, col) ==
  [k \in 1..Len(g) |-> [d \in Cells |-> IF d = c THEN col[k] ELSE g[k][d]]]

InitCells ==
  \E g \in GridsOf(ParNz) : \E col \in [1..ParNz -> Vals] : \E ax \in ZAxes :
    Start(Inv, [p \in Inv |->
      [grid |-> IF p = "a" THEN g ELSE WithColumn(g, <<1, 2>>, col),
       z |-> Altitudes(ax, ParNz),
       scale |-> DefaultScale]])

SpecCells == InitCells /\ [][Next]_vars

\* ---- The cells of the notebooks that read, merge and process files ----

\* The files a glob pattern can match, named by their rank in filename
\* order: the directory holds the first n of them.
FileIds == 1..MaxFiles

Directories == { 1..n : n \in 0..MaxFiles }

\* sorted(names): the names in ascending order.
RECURSIVE SortedNames(_)
SortedNames(S) ==
  IF S = {} THEN <<>>
  ELSE LET m == CHOOSE x \in S : \A y \in S : x <= y
       IN  <<m>> \o SortedNames(S \ {m})

\* The Nyquist velocity of a sweep, m/s: measured velocities lie in
\* -Nyquist .. Nyquist - 1.
Nyquist == 8

\* The radial velocity of the air in the sweep of file f, m/s.
RadialVelocity(f) == 5 * f - 17

\* The number of Nyquist intervals the velocity v is folded by.
Folds(v) == (v + Nyquist) \div (2 * Nyquist)

\* The velocity the radar measures for the velocity v.
Aliased(v) == v - 2 * Nyquist * Folds(v)

\* radar.altitude['data']: the altitude of the radar site, m.
SiteAltitude == 1626

\* pyart.io.read_cfradial(f): a new radar object with the one sweep of f.
ReadCfradial(f) ==
  [sweeps |-> << [of |-> f, velocity |-> Aliased(RadialVelocity(f)),
                  folds |-> Folds(RadialVelocity(f))] >>,
   altitude |-> SiteAltitude,
   corrected_velocity |-> NoField,
   corrected_reflectivity |-> FALSE,
   corrected_velocity_neg |-> NoField,
   bound |-> TRUE]

\* Variant: the sweeps of the second object first.
JoinRadarSwapped(r1, r2) ==
  [sweeps |-> r2.sweeps \o r1.sweeps,
   altitude |-> r1.altitude,
   corrected_velocity |-> NoField,
   corrected_reflectivity |-> FALSE,
   corrected_velocity_neg |-> NoField,
   bound |-> TRUE]

\* pyart.util.join_radar(r1, r2): a new radar object with the sweeps of r1
\* followed by the sweeps of r2.
JoinRadar(r1, r2) ==
  [sweeps |-> r1.sweeps \o r2.sweeps,
   altitude |-> r1.altitude,
   corrected_velocity |-> NoField,
   corrected_reflectivity |-> FALSE,
   corrected_velocity_neg |-> NoField,
   bound |-> TRUE]

\* Variant: the field dictionary of the previous call is handed out again
\* once there is one.
DealiasReused(r) ==
  IF corr_vel.bound THEN corr_vel
  ELSE [data |-> [k \in 1..Len(r.sweeps) |->
                    r.sweeps[k].velocity + 2 * Nyquist * r.sweeps[k].folds],
        of |-> [k \in 1..Len(r.sweeps) |-> r.sweeps[k].of],
        bound |-> TRUE]

\* pyart.correct.dealias_region_based(r): a new field dictionary with the
\* unfolded velocity of every sweep of r.
DealiasRegionBased(r) ==
  [data |-> [k \in 1..Len(r.sweeps) |->
               r.sweeps[k].velocity + 2 * Nyquist * r.sweeps[k].folds],
   of |-> [k \in 1..Len(r.sweeps) |-> r.sweeps[k].of],
   bound |-> TRUE]

\* The file the loop is at: f of "for i, f in enumerate(files)".
LoopFile(files) == files[idx + 1]

\* files_radar = sorted(glob.glob('.../MLL221790725*'))
MergeGlob ==
  /\ cell = "idle"
  /\ \E S \in Directories :
       /\ files_radar' = SortedNames(S)
       /\ cell' = IF S = {} THEN "merged" ELSE "merge_read"
  /\ idx' = 0
  /\ UNCHANGED <<radar, radar_merged, corr_vel, vad, u_allsweeps, v_allsweeps, trace>>
  /\ UNCHANGED <<aggVars, log, out, cappiVars, profileVars>>

\* radar = pyart.io.read_cfradial(f)
MergeRead ==
  /\ cell = "merge_read"
  /\ radar' = ReadCfradial(LoopFile(files_radar))
  /\ trace' = Append(trace, <<"read", LoopFile(files_radar)>>)
  /\ cell' = "merge_join"
  /\ UNCHANGED <<files_radar, idx, radar_merged, corr_vel, vad, u_allsweeps, v_allsweeps>>
  /\ UNCHANGED <<aggVars, log, out, cappiVars, profileVars>>

\* if i == 0: radar_merged = radar
\* else: radar_merged = pyart.util.join_radar(radar_merged, radar)
\* and the loop goes to the next file, or ends.
MergeJoin ==
  /\ cell = "merge_join"
  /\ IF idx = 0
       THEN /\ radar_merged' = radar
            /\ trace' = Append(trace, <<"init", LoopFile(files_radar)>>)
       ELSE /\ radar_merged' = JoinRadar(radar_merged, radar)
            /\ trace' = Append(trace, <<"join", LoopFile(files_radar)>>)
  /\ idx' = idx + 1
  /\ cell' = IF idx + 1 < Len(files_radar) THEN "merge_read" ELSE "merged"
  /\ UNCHANGED <<files_radar, radar, corr_vel, vad, u_allsweeps, v_allsweeps>>
  /\ UNCHANGED <<aggVars, log, out, cappiVars, profileVars>>

\* corr_vel = pyart.correct.dealias_region_based(radar_merged)
\* radar_merged.add_field('corrected_velocity', corr_vel)
\* With no file the name radar_merged is not bound: NameError.
MergeDealias ==
  /\ cell = "merged"
  /\ IF radar_merged.bound
       THEN /\ corr_vel' = DealiasRegionBased(radar_merged)
            /\ radar_merged' =
                 [radar_merged EXCEPT !.corrected_velocity = DealiasRegionBased(radar_merged)]
            /\ cell' = "merge_done"
       ELSE /\ cell' = "NameError"
            /\ UNCHANGED <<corr_vel, radar_merged>>
  /\ UNCHANGED <<files_radar, idx, radar, vad, u_allsweeps, v_allsweeps, trace>>
  /\ UNCHANGED <<aggVars, log, out, cappiVars, profileVars>>

InitNb == Start({}, [p \in Inv |-> NoInput])

NextMerge == MergeGlob \/ MergeRead \/ MergeJoin \/ MergeDealias

SpecMerge == InitNb /\ [][NextMerge]_vars

\* ---- The attenuation correction of the sample solution ----

\* fzl = 4200: the freezing level height passed to the correction, m.
FreezingLevel == 4200

\* out = pyart.correct.calculate_attenuation_zphi(radar_merged, fzl = 4200,
\*           phidp_field = 'uncorrected_differential_phase',
\*           temp_ref = 'fixed_fzl')
\* radar_merged.add_field('corrected_reflectivity', cor_z)
\* With no file the name radar_merged is not bound: NameError.
CorrectAttenuation ==
  /\ cell = "merged"
  /\ IF radar_merged.bound
       THEN /\ out' = [fzl |-> FreezingLevel,
                       phidp_field |-> "uncorrected_differential_phase",
                       temp_ref |-> "fixed_fzl",
                       sweeps |-> Len(radar_merged.sweeps)]
            /\ radar_merged' = [radar_merged EXCEPT !.corrected_reflectivity = TRUE]
            /\ cell' = "corrected"
       ELSE /\ cell' = "NameError"
            /\ UNCHANGED <<out, radar_merged>>
  /\ UNCHANGED <<files_radar, idx, radar, corr_vel, vad, u_allsweeps, v_allsweeps, trace>>
  /\ UNCHANGED <<aggVars, log, profileVars, cappiVars>>

NextAnswer == MergeGlob \/ MergeRead \/ MergeJoin \/ CorrectAttenuation

SpecAnswer == InitNb /\ [][NextAnswer]_vars

\* ---- The CAPPI cells: grid shape, gridding, plot of four levels ----

\* The vertical limits a CAPPI cell may set: the notebooks' 500..8000 m,
\* and 0..10000 m.
ZLimits == {[zmin |-> 500, zmax |-> 8000], [zmin |-> 0, zmax |-> 10000]}

\* The horizontal half-widths: the notebooks' 100 km, and 50 km.
HalfWidths == {100000, 50000}

\* The vertical resolutions: the notebooks' 500 m and 100 m, others that
\* divide the vertical extent, and 300, 750 and 9000 m.
VerticalResolutions == {100, 250, 300, 500, 750, 1000, 9000}

\* The horizontal resolutions: the notebooks' 500 m, 1000 m and 3000 m.
HorizontalResolutions == {500, 1000, 3000}

\* Variant: the number of intervals, int((hi - lo) / r).
PointsNoEndpoint(lo, hi, r) == (hi - lo) \div r

\* int((hi - lo) / r) + 1
Points(lo, hi, r) == ((hi - lo) \div r) + 1

\* np.linspace(lo, hi, n), as grid_from_radars lays out an axis of n points
\* between its limits; in whole metres.
LinSpace(lo, hi, n) ==
  [k \in 1..n |-> IF n = 1 THEN lo ELSE lo + ((k - 1) * (hi - lo)) \div (n - 1)]

\* The level indices the four panels show.
PlotIndices == <<0, 5, 10, 15>>

\* zmin = ...; zmax = ...; ymin = xmin = ...; ymax = xmax = ...
\* cappi_res_h = ...; cappi_res_v = ...
CappiLimits ==
  /\ cell = "idle"
  /\ \E zl \in ZLimits : \E hw \in HalfWidths :
       limits' = [zmin |-> zl.zmin, zmax |-> zl.zmax,
                  xmin |-> -hw, xmax |-> hw, ymin |-> -hw, ymax |-> hw]
  /\ \E rh \in HorizontalResolutions : \E rv \in VerticalResolutions :
       res' = [h |-> rh, v |-> rv]
  /\ cell' = "shape"
  /\ UNCHANGED <<shape, cappi, shown>>
  /\ UNCHANGED <<aggVars, log, loopVars, profileVars, out>>

\* ny = int((ymax-ymin)/cappi_res_h)+1
\* nx = int((xmax-xmin)/cappi_res_h)+1
\* nz = int((zmax-zmin)/cappi_res_v)+1
CappiShape ==
  /\ cell = "shape"
  /\ shape' = [ny |-> Points(limits.ymin, limits.ymax, res.h),
               nx |-> Points(limits.xmin, limits.xmax, res.h),
               nz |-> Points(limits.zmin, limits.zmax, res.v)]
  /\ cell' = "grid"
  /\ UNCHANGED <<limits, res, cappi, shown>>
  /\ UNCHANGED <<aggVars, log, loopVars, profileVars, out>>

\* cappi_zh = pyart.map.grid_from_radars(radar_merged,
\*     grid_shape=(nz, ny, nx),
\*     grid_limits=((zmin, zmax), (ymin, ymax), (xmin, xmax)), ...)
GridFromRadars ==
  /\ cell = "grid"
  /\ cappi' = [z |-> LinSpace(limits.zmin, limits.zmax, shape.nz),
               y |-> LinSpace(limits.ymin, limits.ymax, shape.ny),
               x |-> LinSpace(limits.xmin, limits.xmax, shape.nx)]
  /\ cell' = "plot_grid"
  /\ UNCHANGED <<limits, res, shape, shown>>
  /\ UNCHANGED <<aggVars, log, loopVars, profileVars, out>>

\* display.plot_grid('reflectivity', 0, ...), then 5, 10 and 15: a level
\* index beyond the grid raises IndexError.
PlotGrid ==
  /\ cell = "plot_grid"
  /\ IF \A j \in 1..Len(PlotIndices) : PlotIndices[j] < Len(cappi.z)
       THEN /\ shown' = [j \in 1..Len(PlotIndices) |-> cappi.z[PlotIndices[j] + 1]]
            /\ cell' = "grid_plotted"
       ELSE /\ shown' = shown
            /\ cell' = "IndexError"
  /\ UNCHANGED <<limits, res, shape, cappi>>
  /\ UNCHANGED <<aggVars, log, loopVars, profileVars, out>>

NextCappi == CappiLimits \/ CappiShape \/ GridFromRadars \/ PlotGrid

SpecCappi == InitNb /\ [][NextCappi]_vars

\* ---- The velocity azimuth display cell and the plot of its profile ----

\* files_radar[4:]: the number of leading sweeps the loop leaves out.
Skip == 4

\* Variant: files[3:], one sweep less left out.
SliceFromThird(files) == SubSeq(files, Skip, Len(files))

\* files[4:]
Slice(files) == SubSeq(files, Skip + 1, Len(files))

\* np.arange(start, stop, step)
ARange(start, stop, step) ==
  [k \in 1..((stop - start + step - 1) \div step) |-> start + (k - 1) * step]

\* zlevels = np.arange(100, 5000, 100)
zlevels == ARange(100, 5000, 100)

\* The highest level of zlevels the sweep of file f has data at: sweeps of
\* higher elevation reach higher.
Cover(f) == IF 3 * f < Len(zlevels) THEN 3 * f ELSE Len(zlevels)

\* pyart.retrieve.vad_browning(r, field, z_want = zlevels): the wind
\* components at every level, linear in the velocity of the field, and
\* undefined at the levels the sweep does not reach.
VadBrowning(r, field) ==
  [u_wind |-> [k \in 1..Len(zlevels) |->
                 IF k <= Cover(r.sweeps[1].of)
                   THEN Num(3 * field.data[1]) ELSE NaN],
   v_wind |-> [k \in 1..Len(zlevels) |->
                 IF k <= Cover(r.sweeps[1].of)
                   THEN Num(4 * field.data[1]) ELSE NaN],
   of |-> field.of[1],
   bound |-> TRUE]

\* corr_vel['data'] *= -1
Negate(field) ==
  [field EXCEPT !.data = [k \in 1..Len(field.data) |-> -field.data[k]]]

\* files_radar = sorted(glob.glob('.../MLA211941205*'))
\* u_allsweeps = []; v_allsweeps = []; speed = []
VadGlob ==
  /\ cell = "idle"
  /\ \E S \in Directories :
       /\ files_radar' = SortedNames(S)
       /\ cell' = IF Len(Slice(SortedNames(S))) > 0 THEN "vad_read" ELSE "average"
  /\ idx' = 0
  /\ u_allsweeps' = <<>>
  /\ v_allsweeps' = <<>>
  /\ speed' = <<>>
  /\ UNCHANGED <<radar, radar_merged, corr_vel, vad, trace>>
  /\ UNCHANGED <<u_avg, v_avg, orientation, plotted>>
  /\ UNCHANGED <<aggVars, log, out, cappiVars>>

\* radar = pyart.io.read_cfradial(f)
VadRead ==
  /\ cell = "vad_read"
  /\ radar' = ReadCfradial(LoopFile(Slice(files_radar)))
  /\ trace' = Append(trace, <<"read", LoopFile(Slice(files_radar))>>)
  /\ cell' = "vad_dealias"
  /\ UNCHANGED <<files_radar, idx, radar_merged, corr_vel, vad, u_allsweeps, v_allsweeps>>
  /\ UNCHANGED <<aggVars, log, out, cappiVars, profileVars>>

\* corr_vel = pyart.correct.dealias_region_based(radar)
VadDealias ==
  /\ cell = "vad_dealias"
  /\ corr_vel' = DealiasRegionBased(radar)
  /\ trace' = Append(trace, <<"dealias", radar.sweeps[1].of>>)
  /\ cell' = "vad_negate"
  /\ UNCHANGED <<files_radar, idx, radar, radar_merged, vad, u_allsweeps, v_allsweeps>>
  /\ UNCHANGED <<aggVars, log, out, cappiVars, profileVars>>

\* corr_vel['data'] *= -1
VadNegate ==
  /\ cell = "vad_negate"
  /\ corr_vel' = Negate(corr_vel)
  /\ trace' = Append(trace, <<"negate", corr_vel.of[1]>>)
  /\ cell' = "vad_add_field"
  /\ UNCHANGED <<files_radar, idx, radar, radar_merged, vad, u_allsweeps, v_allsweeps>>
  /\ UNCHANGED <<aggVars, log, out, cappiVars, profileVars>>

\* radar.add_field('corrected_velocity_neg', corr_vel)
VadAddField ==
  /\ cell = "vad_add_field"
  /\ radar' = [radar EXCEPT !.corrected_velocity_neg = corr_vel]
  /\ cell' = "vad_retrieve"
  /\ UNCHANGED <<files_radar, idx, radar_merged, corr_vel, vad, u_allsweeps, v_allsweeps, trace>>
  /\ UNCHANGED <<aggVars, log, out, cappiVars, profileVars>>

\* vad = pyart.retrieve.vad_browning(radar, 'corrected_velocity_neg', z_want = zlevels)
VadRetrieve ==
  /\ cell = "vad_retrieve"
  /\ vad' = VadBrowning(radar, radar.corrected_velocity_neg)
  /\ trace' = Append(trace, <<"vad", radar.sweeps[1].of>>)
  /\ cell' = "vad_append"
  /\ UNCHANGED <<files_radar, idx, radar, radar_merged, corr_vel, u_allsweeps, v_allsweeps>>
  /\ UNCHANGED <<aggVars, log, out, cappiVars, profileVars>>

\* u_allsweeps.append(vad.u_wind); v_allsweeps.append(vad.v_wind)
\* and the loop goes to the next file, or ends.
VadAppend ==
  /\ cell = "vad_append"
  /\ u_allsweeps' = Append(u_allsweeps, [of |-> vad.of, wind |-> vad.u_wind])
  /\ v_allsweeps' = Append(v_allsweeps, [of |-> vad.of, wind |-> vad.v_wind])
  /\ trace' = Append(trace, <<"append", vad.of>>)
  /\ idx' = idx + 1
  /\ cell' = IF idx + 1 < Len(Slice(files_radar)) THEN "vad_read" ELSE "average"
  /\ UNCHANGED <<files_radar, radar, radar_merged, corr_vel, vad>>
  /\ UNCHANGED <<aggVars, log, out, cappiVars, profileVars>>

\* The defined values of the sweeps ws at level k.
DefinedAt(ws, k) == {i \in 1..Len(ws) : ~ws[i].wind[k].nan}

RECURSIVE SumAt(_, _, _)
SumAt(ws, k, I) ==
  IF I = {} THEN 0
  ELSE LET i == CHOOSE j \in I : TRUE
       IN  ws[i].wind[k].v + SumAt(ws, k, I \ {i})

\* np.nanmean(np.array(ws), axis = 0), in tenths: at every level the mean
\* of the sweeps that are defined there, undefined where none is.  The
\* mean of an empty list is one undefined value.
NanMean(ws) ==
  IF ws = <<>> THEN <<NaN>>
  ELSE [k \in 1..Len(zlevels) |->
          IF DefinedAt(ws, k) = {} THEN NaN
          ELSE Num((10 * SumAt(ws, k, DefinedAt(ws, k))) \div Cardinality(DefinedAt(ws, k)))]

Abs(x) == IF x < 0 THEN -x ELSE x

\* The integer part of the square root of x*x + y*y.
Hypot(x, y) ==
  CHOOSE r \in 0..(Abs(x) + Abs(y)) :
    r * r <= x * x + y * y /\ x * x + y * y < (r + 1) * (r + 1)

\* np.rad2deg(np.arctan2(-u, -v)) % 360 in tenths of a degree, for the wind
\* vectors of VadBrowning, which have u : v = 3 : 4.
Direction(u, v) ==
  IF u.nan \/ v.nan THEN NaN
  ELSE IF u.v > 0 THEN Num(2169)
  ELSE IF u.v < 0 THEN Num(369)
  ELSE Num(1800)

\* np.sqrt(u**2 + v**2)
Speed(u, v) == IF u.nan \/ v.nan THEN NaN ELSE Num(Hypot(u.v, v.v))

\* u_avg = np.nanmean(np.array(u_allsweeps), axis = 0)
\* v_avg = np.nanmean(np.array(v_allsweeps), axis = 0)
\* orientation = np.rad2deg(np.arctan2(-u_avg, -v_avg)) % 360
\* speed = np.sqrt(u_avg**2 + v_avg**2)
VadAverage ==
  /\ cell = "average"
  /\ u_avg' = NanMean(u_allsweeps)
  /\ v_avg' = NanMean(v_allsweeps)
  /\ orientation' =
       [k \in 1..Len(NanMean(u_allsweeps)) |->
          Direction(NanMean(u_allsweeps)[k], NanMean(v_allsweeps)[k])]
  /\ speed' =
       [k \in 1..Len(NanMean(u_allsweeps)) |->
          Speed(NanMean(u_allsweeps)[k], NanMean(v_allsweeps)[k])]
  /\ cell' = "plot"
  /\ UNCHANGED <<loopVars, plotted>>
  /\ UNCHANGED <<aggVars, log, out, cappiVars>>

\* Variant: the speed itself.
PlottedSpeedPlain(sp) == sp

\* speed*2, the first argument of ax[0].plot
PlottedSpeed(sp) ==
  [k \in 1..Len(sp) |-> IF sp[k].nan THEN NaN ELSE Num(sp[k].v * 2)]

\* ax[0].plot(speed*2, zlevels+radar.altitude['data'])
\* ax[0].set_xlabel('Wind speed [m/s]')
\* With no sweep processed the name radar is not bound: NameError.
PlotProfile ==
  /\ cell = "plot"
  /\ IF ~radar.bound
       THEN cell' = "NameError" /\ plotted' = plotted
       ELSE /\ plotted' =
                 [x |-> PlottedSpeed(speed),
                  y |-> [k \in 1..Len(zlevels) |-> zlevels[k] + radar.altitude],
                  xlabel |-> "Wind speed [m/s]"]
            /\ cell' = "plotted"
  /\ UNCHANGED <<loopVars, u_avg, v_avg, orientation, speed>>
  /\ UNCHANGED <<aggVars, log, out, cappiVars>>

NextVad ==
  \/ VadGlob \/ VadRead \/ VadDealias \/ VadNegate \/ VadAddField
  \/ VadRetrieve \/ VadAppend \/ VadAverage \/ PlotProfile

SpecVad == InitNb /\ [][NextVad]_vars

---------------------------------------------------------------------------
\* Vocabulary of the properties.

\* Invocation p has bound weighting (line 1 of the cell has run).
HasWeights(p) == pc[p] \in {"product", "reduce", "done", "failed"}

\* Invocation p has returned its surface.
Returned(p) == pc[p] = "done"

\* A call the contract covers: one altitude per level, at least one level,
\* a positive scale.
ValidCall(p) == Len(grid[p]) >= 1 /\ Len(z[p]) = Len(grid[p]) /\ scale[p] > 0

\* The column of the input grid of p at cell c is undefined at level k.
Undefined(p, k, c) == grid[p][k][c].nan

\* Sum over levels 1..k of weight * value at cell c, undefined counted as 0.
RECURSIVE WeightedColumnSum(_, _, _, _)
WeightedColumnSum(w, g, c, k) ==
  IF k = 0 THEN 0
  ELSE WeightedColumnSum(w, g, c, k - 1)
         + (IF g[k][c].nan THEN 0 ELSE w[k].v * g[k][c].v)

\* Sum of the weights of the levels 1..k that are in S.
RECURSIVE WeightSumOver(_, _, _)
WeightSumOver(w, S, k) ==
  IF k = 0 THEN 0
  ELSE WeightSumOver(w, S, k - 1) + (IF k \in S THEN w[k].v ELSE 0)

\* C1: for a grid of nz >= 1 levels, every cell of the surface is the sum
\* over all levels of weight[k] * grid[k,i,j], undefined entries counted as
\* 0, divided by the sum of the weights of ALL nz levels: one denominator
\* for every cell, whichever levels are defined there.
C1_SurfaceIsWeightedSumOverTotalWeight ==
  \A p \in Inv :
    (Returned(p) /\ ValidCall(p)) =>
      LET nz == Len(grid[p])
          total == WeightSumOver(weighting[p], 1..nz, nz)
      IN  \A c \in Cells :
            qpe_ground[p][c]
              = Frac(WeightedColumnSum(weighting[p], grid[p], c, nz), total)

\* A returned surface of a three-level grid with a cell that is defined at
\* the lowest level only and a cell that is defined everywhere.
C1_Witness ==
  /\ Returned("a") /\ ValidCall("a") /\ Len(grid["a"]) = 3
  /\ ~Undefined("a", 1, <<1, 1>>)
  /\ Undefined("a", 2, <<1, 1>>) /\ Undefined("a", 3, <<1, 1>>)
  /\ grid["a"][1][<<1, 1>>].v = 10
  /\ \A k \in 1..3 : ~Undefined("a", k, <<1, 2>>)
  /\ qpe_ground["a"][<<1, 1>>].n > 0

\* C2: a cell whose column is undefined at every level has the surface
\* value exactly 0, not undefined, whatever the other cells hold.
C2_AllUndefinedColumnIsZero ==
  \A p \in Inv :
    (Returned(p) /\ ValidCall(p)) =>
      \A c \in Cells :
        (\A k \in 1..Len(grid[p]) : Undefined(p, k, c)) =>
          /\ qpe_ground[p][c].k = "num"
          /\ qpe_ground[p][c].n = 0

\* A returned surface where one cell's column is all undefined and the
\* other cell holds a positive value.
C2_Witness ==
  /\ Returned("a") /\ ValidCall("a") /\ Len(grid["a"]) = 3
  /\ \A k \in 1..3 : Undefined("a", k, <<1, 1>>)
  /\ \E k \in 1..3 : grid["a"][k][<<1, 2>>] = Num(10)
  /\ qpe_ground["a"][<<1, 2>>].n > 0

\* C3: weight[k] = exp(-0.5 * altitudes[k] / scale), the scale being 1000
\* in the cell as written; with a positive scale and increasing altitudes
\* every weight is strictly positive and each weight is strictly smaller
\* than the weight of the level below.
C3_WeightsExponentialPositiveDecreasing ==
  \A p \in Inv :
    (HasWeights(p) /\ scale[p] > 0) =>
      LET w == weighting[p] IN
      /\ Len(w) = Len(z[p])
      /\ \A k \in 1..Len(w) :
           /\ ~w[k].nan
           /\ w[k].v > 0
           /\ w[k].v = Exp8(-((4 * z[p][k]) \div scale[p]))
           /\ scale[p] = DefaultScale => w[k].v = Exp8(-(z[p][k] \div 250))
      /\ \A k \in 1..(Len(w) - 1) : w[k + 1].v < w[k].v
      /\ DefaultScale = 1000

\* Weights of the altitudes 0, 1000, 2000 with the scale 1000:
\* 1.0, 0.6065, 0.3679.
C3_Witness ==
  /\ HasWeights("a") /\ scale["a"] = 1000
  /\ z["a"] = <<0, 1000, 2000>>
  /\ weighting["a"] = <<Num(10000), Num(6065), Num(3679)>>

\* The number of altitudes of p differs from the number of levels of its grid.
Mismatch(p) == Len(z[p]) # Len(grid[p])

\* Invocation p is past the weighted product (line 2 of the cell).
PastProduct(p) == pc[p] \in {"reduce", "done", "failed"}

LevelsHolding(p, c, v) == {k \in 1..Len(grid[p]) : grid[p][k][c] = Num(v)}

\* The column of p at cell c holds v at some levels and is undefined at
\* all the others.
ConstantWhereDefined(p, c, v) ==
  \A k \in 1..Len(grid[p]) : Undefined(p, k, c) \/ grid[p][k][c] = Num(v)

\* C7: a column that is defined at every level and holds the same value c
\* at every level has the surface value c; so a grid of a single level
\* without undefined values is returned cell for cell.
C7_UniformColumnIsReturned ==
  \A p \in Inv :
    (Returned(p) /\ ValidCall(p)) =>
      \A c \in Cells : \A v \in {0, 10} :
        (\A k \in 1..Len(grid[p]) : grid[p][k][c] = Num(v)) =>
          qpe_ground[p][c] = [k |-> "num", n |-> v, d |-> 1]

\* A returned surface of three levels at distinct weights with a cell that
\* holds 10 at every level.
C7_Witness ==
  /\ Returned("a") /\ ValidCall("a") /\ Len(grid["a"]) = 3
  /\ \A k \in 1..3 : grid["a"][k][<<1, 1>>] = Num(10)
  /\ weighting["a"][1] # weighting["a"][3]
  /\ qpe_ground["a"][<<1, 1>>].n = 10

\* The call of the example: altitudes 0, 1000, 2000, scale 1000, and the
\* column 10, undefined, undefined at cell (1, 1).
C8_Example(p) ==
  /\ Returned(p) /\ scale[p] = 1000 /\ z[p] = <<0, 1000, 2000>>
  /\ Len(grid[p]) = 3
  /\ grid[p][1][<<1, 1>>] = Num(10)
  /\ Undefined(p, 2, <<1, 1>>) /\ Undefined(p, 3, <<1, 1>>)

\* The surface value at cell (1, 1), in thousandths, lies in lo .. hi - 1.
C8_ValueWithin(p, lo, hi) ==
  LET q == qpe_ground[p][<<1, 1>>] IN
  q.k = "num" /\ lo * q.d <= 1000 * q.n /\ 1000 * q.n < hi * q.d

\* The general statement of C8: a column that holds c > 0 on the levels S
\* and is undefined elsewhere has the value c * (sum of the weights of S)
\* / (sum of all weights), strictly below c when some level is undefined.
C8_General ==
  \A p \in Inv :
    (Returned(p) /\ ValidCall(p)) =>
      \A c \in Cells :
        ConstantWhereDefined(p, c, 10) =>
          LET nz == Len(grid[p])
              S == LevelsHolding(p, c, 10)
              q == qpe_ground[p][c]
          IN  /\ q = Frac(10 * WeightSumOver(weighting[p], S, nz),
                          WeightSumOver(weighting[p], 1..nz, nz))
              /\ S # 1..nz => q.n < 10 * q.d

\* C8 as stated: the general statement, and the example gives about 5.09.
C8_Original_ExampleIs509 ==
  /\ C8_General
  /\ \A p \in Inv : C8_Example(p) => C8_ValueWithin(p, 5085, 5095)

\* C8 amended: the general statement, and the example (10, undefined,
\* undefined at the altitudes 0, 1000, 2000) gives 10 * w0 / (w0 + w1 + w2),
\* about 5.06, not 10.
C8_PartialColumnIsScaledDown ==
  /\ C8_General
  /\ \A p \in Inv : C8_Example(p) => C8_ValueWithin(p, 5055, 5065)

\* The example call has returned.
C8_Witness ==
  /\ C8_Example("a")
  /\ qpe_ground["a"][<<1, 1>>] = Frac(100000, 19744)

\* C9: no statement of a call changes the grid (values or undefined
\* entries), the altitudes or the scale, and the weight vector is not
\* changed once it is bound; a step changes only what the call produces.
C9_InputsAndWeightsUnchanged ==
  [][ /\ grid' = grid
      /\ z' = z
      /\ scale' = scale
      /\ \A p \in Inv : HasWeights(p) => weighting'[p] = weighting[p]
    ]_vars

\* A call on a grid with undefined entries has returned its surface.
C9_Witness ==
  /\ Returned("a") /\ ValidCall("a") /\ Len(grid["a"]) = 3
  /\ \E c \in Cells : Undefined("a", 2, c)
  /\ \E c \in Cells : qpe_ground["a"][c].k = "num" /\ qpe_ground["a"][c].n > 0
  /\ Len(weighting["a"]) = 3

\* The surface the cell returns for the inputs of p when run alone.
SurfaceAlone(p) ==
  LET w == Weighting(z[p], scale[p])
  IN  Reduce(w, WeightedProduct(w, grid[p]))

Returns == log \o (IF Returned("a") THEN <<Finished("a")>> ELSE <<>>)

SameInputs(r1, r2) ==
  r1.grid = r2.grid /\ r1.z = r2.z /\ r1.scale = r2.scale

\* C11: the aggregator is deterministic: two calls with identical grid,
\* altitudes and scale return identical surfaces, whatever calls were made
\* in between.
C11_IdenticalInputsIdenticalSurfaces ==
  \A i, j \in 1..Len(Returns) :
    SameInputs(Returns[i], Returns[j]) =>
      Returns[i].surface = Returns[j].surface

\* The third execution has returned on the inputs of the first one, after
\* a second execution on another scale, and the surface depends on the
\* weights.
C11_Witness ==
  /\ Len(Returns) = 3
  /\ SameInputs(Returns[1], Returns[3])
  /\ Returns[2].scale # Returns[1].scale
  /\ Returns[2].surface # Returns[1].surface
  /\ Len(Returns[1].grid) = 2
  /\ Returns[3].surface[<<1, 1>>].k = "num"

\* The column of the input grid of p at cell c is defined at some level
\* and undefined at some other level.
PartlyDefined(p, c) ==
  /\ \E k \in 1..Len(grid[p]) : ~Undefined(p, k, c)
  /\ \E k \in 1..Len(grid[p]) : Undefined(p, k, c)

\* C12: whenever at least one level of cell (i, j) is defined, the surface
\* at (i, j) is defined: undefined values at some levels never make the
\* surface cell undefined.
C12_DefinedLevelGivesDefinedSurface ==
  \A p \in Inv :
    (Returned(p) /\ ValidCall(p)) =>
      \A c \in Cells :
        (\E k \in 1..Len(grid[p]) : ~Undefined(p, k, c)) =>
          /\ qpe_ground[p][c].k = "num"
          /\ qpe_ground[p][c].d > 0

\* A returned surface of a three-level grid with a cell that is undefined
\* at the lowest and at the highest level and holds 10 in between.
C12_Witness ==
  /\ Returned("a") /\ ValidCall("a") /\ Len(grid["a"]) = 3
  /\ PartlyDefined("a", <<1, 1>>)
  /\ Undefined("a", 1, <<1, 1>>) /\ Undefined("a", 3, <<1, 1>>)
  /\ grid["a"][2][<<1, 1>>] = Num(10)
  /\ qpe_ground["a"][<<1, 1>>].k = "num"
  /\ qpe_ground["a"][<<1, 1>>].n > 0

\* C13: for strictly increasing altitudes, levels k < l and scales
\* 0 < s1 < s2, the ratio weight[l] / weight[k] computed with s2 is
\* strictly greater than the ratio computed with s1, and stays below 1.
\* The ratios are compared by cross-multiplication.
C13_LargerScaleFlattensWeights ==
  \A p, q \in Inv :
    (/\ HasWeights(p) /\ HasWeights(q)
     /\ z[p] = z[q]
     /\ 0 < scale[p] /\ scale[p] < scale[q]) =>
      LET w1 == weighting[p]
          w2 == weighting[q]
      IN  \A k, l \in 1..Len(z[p]) :
            (k < l /\ z[p][k] < z[p][l]) =>
              /\ w1[k].v > 0 /\ w2[k].v > 0
              /\ w2[l].v * w1[k].v > w1[l].v * w2[k].v
              /\ w2[l].v < w2[k].v
              /\ w1[l].v < w1[k].v

\* Both executions have their weights for the altitudes 0, 1000, 3000,
\* one with the scale 1000 and one with the scale 2000.
C13_Witness ==
  /\ HasWeights("a") /\ HasWeights("b")
  /\ z["a"] = <<0, 1000, 3000>> /\ z["b"] = z["a"]
  /\ scale["a"] = DefaultScale /\ scale["b"] = 2 * DefaultScale
  /\ weighting["a"][2].v = 6065 /\ weighting["b"][2].v = 7788
  /\ weighting["a"][3].v < weighting["b"][3].v

\* The column of the input grid of p at cell c holds v at level k and is
\* undefined at every other level.
OnlyLevel(p, c, k, v) ==
  /\ k \in 1..Len(grid[p])
  /\ grid[p][k][c] = Num(v)
  /\ \A m \in 1..Len(grid[p]) : m # k => Undefined(p, m, c)

\* A defined surface value in thousandths, rounded down.
Milli(q) == (q.n * 1000) \div q.d

\* C19: near-ground data dominates and upper-level data is a fallback: for
\* strictly increasing altitudes, of two columns that each hold the same
\* c > 0 at exactly one level, the one whose level is lower has the
\* strictly larger surface value; and a column that is undefined at the
\* lowest level and holds a positive value at some higher level has a
\* strictly positive surface value.  Values are rain rates, never negative.
C19_LowerLevelDominatesUpperIsFallback ==
  \A p \in Inv :
    (Returned(p) /\ ValidCall(p)) =>
      /\ \A c1, c2 \in Cells : \A k, l \in 1..Len(grid[p]) : \A v \in {10} :
           (k < l /\ OnlyLevel(p, c1, k, v) /\ OnlyLevel(p, c2, l, v)) =>
             /\ qpe_ground[p][c1].k = "num" /\ qpe_ground[p][c2].k = "num"
             /\ Milli(qpe_ground[p][c1]) > Milli(qpe_ground[p][c2])
             /\ qpe_ground[p][c2].n > 0
      /\ \A c \in Cells :
           (/\ Undefined(p, 1, c)
            /\ \E k \in 2..Len(grid[p]) : ~Undefined(p, k, c) /\ grid[p][k][c].v > 0) =>
             /\ qpe_ground[p][c].k = "num"
             /\ qpe_ground[p][c].n > 0 /\ qpe_ground[p][c].d > 0

\* A returned surface of a three-level grid: cell (1, 1) holds 10 at the
\* lowest level only, cell (1, 2) holds 10 at the highest level only, and
\* the surface is 5.06 at the first and 1.86 at the second.
C19_Witness ==
  /\ Returned("a") /\ ValidCall("a") /\ Len(grid["a"]) = 3
  /\ z["a"] = <<0, 1000, 2000>> /\ scale["a"] = DefaultScale
  /\ OnlyLevel("a", <<1, 1>>, 1, 10)
  /\ OnlyLevel("a", <<1, 2>>, 3, 10)
  /\ Milli(qpe_ground["a"][<<1, 1>>]) = 5064
  /\ Milli(qpe_ground["a"][<<1, 2>>]) = 1863

\* The calls of a merge loop over the files fs: the first file is read and
\* initialises the merged object, every later file is read and joined.
MergeCalls(fs) ==
  [j \in 1..(2 * Len(fs)) |->
     IF j % 2 = 1 THEN <<"read", fs[(j + 1) \div 2]>>
     ELSE IF j = 2 THEN <<"init", fs[1]>>
     ELSE <<"join", fs[j \div 2]>>]

\* The merge loop has finished.
MergeFinished == cell \in {"merged", "merge_done", "corrected"}

\* C14: for a sorted list of n >= 1 radar files, when the merge loop
\* finishes the merged radar object is the left-to-right join of all n
\* files in sorted filename order: the first file initialises it, every
\* later file is joined exactly once, none is skipped or joined twice, so
\* n single-sweep files give one object with n sweeps.
C14_MergedIsJoinOfAllFilesInOrder ==
  (MergeFinished /\ Len(files_radar) >= 1) =>
    /\ \A k \in 1..(Len(files_radar) - 1) : files_radar[k] < files_radar[k + 1]
    /\ radar_merged.bound
    /\ Len(radar_merged.sweeps) = Len(files_radar)
    /\ \A k \in 1..Len(files_radar) : radar_merged.sweeps[k].of = files_radar[k]
    /\ trace = MergeCalls(files_radar)

\* The merge loop has finished on 20 files and the merged object has
\* their 20 sweeps.
C14_Witness ==
  /\ MergeFinished
  /\ Len(files_radar) = 20
  /\ Len(radar_merged.sweeps) = 20
  /\ radar_merged.sweeps[1].of = 1 /\ radar_merged.sweeps[20].of = 20
  /\ Len(trace) = 40

\* The library calls of one iteration of the VAD loop on file f.
IterationCalls(f) ==
  << <<"read", f>>, <<"dealias", f>>, <<"negate", f>>, <<"vad", f>>, <<"append", f>> >>

\* The library calls of the VAD loop on the files fs, in order.
RECURSIVE LoopCalls(_)
LoopCalls(fs) ==
  IF fs = <<>> THEN <<>> ELSE IterationCalls(Head(fs)) \o LoopCalls(Tail(fs))

\* The VAD loop has exited.
VadLoopExited == cell \in {"average", "plot", "plotted", "NameError"}

\* max(0, n)
Max0(n) == IF n > 0 THEN n ELSE 0

\* C15: the VAD loop skips the first four sweeps: for a sorted list of n
\* files it never reads files 0..3 and performs read, dealias, negate,
\* VAD, append exactly once for each remaining file in order, so on exit
\* u_allsweeps and v_allsweeps both have max(0, n - 4) entries and entry i
\* of each comes from file i + 4 (counting from 0).
C15_VadLoopSkipsFourAndProcessesRestOnce ==
  /\ \A j \in 1..Len(trace) : \A k \in 1..Len(files_radar) :
       k <= 4 => trace[j][2] # files_radar[k]
  /\ VadLoopExited =>
       LET n == Len(files_radar) IN
       /\ Len(u_allsweeps) = Max0(n - 4)
       /\ Len(v_allsweeps) = Max0(n - 4)
       /\ \A i \in 1..Len(u_allsweeps) :
            /\ u_allsweeps[i].of = files_radar[i + 4]
            /\ v_allsweeps[i].of = files_radar[i + 4]
       /\ trace = LoopCalls(SubSeq(files_radar, 5, n))

\* The loop has exited on a directory of 7 files: three sweeps processed,
\* the first of them the fifth file.
C15_Witness ==
  /\ VadLoopExited
  /\ Len(files_radar) = 7
  /\ Len(u_allsweeps) = 3 /\ Len(v_allsweeps) = 3
  /\ u_allsweeps[1].of = 5 /\ v_allsweeps[3].of = 7
  /\ Len(trace) = 15

\* The positions of the call c on file f in the trace.
CallsOf(c, f) == {j \in 1..Len(trace) : trace[j] = <<c, f>>}

\* The velocity field of the current sweep has been dealiased and negated
\* and the retrieval has not consumed it yet, or has just done so.
NegatedInHand == cell \in {"vad_add_field", "vad_retrieve", "vad_append"}

\* C20: in every iteration of the VAD loop the dealiased radial velocity
\* of the current sweep is negated exactly once, after dealiasing and
\* before the VAD retrieval of that same sweep; the negation of one sweep
\* never applies to, or compounds with, the velocity of another sweep:
\* every iteration works on a freshly read sweep and a freshly computed
\* velocity field.
C20_EachSweepNegatedOnceBetweenDealiasAndVad ==
  /\ \A f \in FileIds :
       /\ Cardinality(CallsOf("negate", f)) <= 1
       /\ \A j \in CallsOf("negate", f) : j > 1 /\ trace[j - 1] = <<"dealias", f>>
       /\ \A j \in CallsOf("vad", f) : j > 1 /\ trace[j - 1] = <<"negate", f>>
       /\ \A j \in CallsOf("dealias", f) : j > 1 /\ trace[j - 1] = <<"read", f>>
  /\ cell = "vad_negate" =>
       /\ corr_vel.of = <<radar.sweeps[1].of>>
       /\ corr_vel.data = <<RadialVelocity(radar.sweeps[1].of)>>
  /\ NegatedInHand =>
       /\ corr_vel.of = <<radar.sweeps[1].of>>
       /\ corr_vel.data = <<-RadialVelocity(radar.sweeps[1].of)>>
  /\ cell = "vad_append" =>
       /\ vad.of = radar.sweeps[1].of
       /\ vad.u_wind[1] = Num(-3 * RadialVelocity(vad.of))
       /\ vad.v_wind[1] = Num(-4 * RadialVelocity(vad.of))
  /\ \A i \in 1..Len(u_allsweeps) :
       /\ u_allsweeps[i].wind[1] = Num(-3 * RadialVelocity(u_allsweeps[i].of))
       /\ v_allsweeps[i].wind[1] = Num(-4 * RadialVelocity(v_allsweeps[i].of))

\* The second iteration, on file 6, has retrieved its wind from the
\* velocity -13 m/s, the negated dealiased velocity of that sweep, after
\* the first iteration appended the wind of file 5, velocity -8 m/s.
C20_Witness ==
  /\ cell = "vad_append"
  /\ idx = 1
  /\ radar.sweeps[1].of = 6
  /\ radar.sweeps[1].velocity = -3
  /\ corr_vel.data = <<-13>>
  /\ vad.u_wind[1] = Num(-39)
  /\ Len(u_allsweeps) = 1 /\ u_allsweeps[1].of = 5
  /\ u_allsweeps[1].wind[1] = Num(-24)
  /\ Cardinality(CallsOf("negate", 5)) = 1 /\ Cardinality(CallsOf("negate", 6)) = 1

\* The wind-speed axes have been drawn.
Plotted == cell = "plotted"

\* C18: the plotted wind-speed profile (x label 'Wind speed [m/s]') equals,
\* at every level, sqrt(u_avg^2 + v_avg^2) of the averaged wind
\* components, and is plotted against one altitude per entry of zlevels.
C18_PlottedProfileIsWindSpeed ==
  Plotted =>
    /\ plotted.xlabel = "Wind speed [m/s]"
    /\ Len(plotted.x) = Len(zlevels)
    /\ Len(plotted.y) = Len(zlevels)
    /\ \A k \in 1..Len(zlevels) :
         /\ plotted.y[k] = zlevels[k] + radar.altitude
         /\ plotted.x[k] = Speed(u_avg[k], v_avg[k])

\* The attenuation of the merged volume has been computed.
AttenuationCorrected == cell = "corrected"

\* C17: in the sample-solution notebook the attenuation correction uses a
\* constant freezing level height of 2700 m: the freezing level passed to
\* the correction is 2700 and the temperature reference mode is the fixed
\* freezing level.
C17_FreezingLevelIs2700Fixed ==
  AttenuationCorrected =>
    /\ out.fzl = 2700
    /\ out.temp_ref = "fixed_fzl"

\* The grid has been laid out.
Gridded == cell \in {"plot_grid", "grid_plotted", "IndexError"}

\* The limits of both notebooks: 500..8000 m, -100..100 km.
NotebookLimits ==
  limits = [zmin |-> 500, zmax |-> 8000, xmin |-> -100000, xmax |-> 100000,
            ymin |-> -100000, ymax |-> 100000]

\* The points of axis ax lie r apart from lo on, the last one at hi.
EvenlySpaced(ax, lo, hi, r) ==
  /\ \A k \in 0..(Len(ax) - 1) : ax[k + 1] = lo + k * r
  /\ ax[Len(ax)] = hi

\* C16: the CAPPI grid sizes are n = (max - min) / resolution + 1 per
\* axis, so that (for a resolution that divides the extent, as in the
\* notebooks) level k lies at zmin + k * resolution and the last level at
\* zmax: with 500..8000 m and 500 m there are 16 levels and the plotted
\* indices 0, 5, 10, 15 are 0.5, 3, 5.5 and 8 km; with 100 m there are 76
\* levels; horizontally 401 points per axis at 500 m over -100..100 km.
C16_GridSizesAndLevelAltitudes ==
  Gridded =>
    /\ shape.nz = (limits.zmax - limits.zmin) \div res.v + 1
    /\ shape.ny = (limits.ymax - limits.ymin) \div res.h + 1
    /\ shape.nx = (limits.xmax - limits.xmin) \div res.h + 1
    /\ Len(cappi.z) = shape.nz /\ Len(cappi.y) = shape.ny /\ Len(cappi.x) = shape.nx
    /\ (limits.zmax - limits.zmin) % res.v = 0 =>
         EvenlySpaced(cappi.z, limits.zmin, limits.zmax, res.v)
    /\ (limits.xmax - limits.xmin) % res.h = 0 =>
         /\ EvenlySpaced(cappi.x, limits.xmin, limits.xmax, res.h)
         /\ EvenlySpaced(cappi.y, limits.ymin, limits.ymax, res.h)
    /\ (NotebookLimits /\ res.v = 500) =>
         /\ shape.nz = 16
         /\ cell # "IndexError"
         /\ cell = "grid_plotted" => shown = <<500, 3000, 5500, 8000>>
    /\ (NotebookLimits /\ res.v = 100) => shape.nz = 76
    /\ (NotebookLimits /\ res.h = 500) => shape.nx = 401 /\ shape.ny = 401

\* The four panels of the exercise notebook are drawn: 16 levels of
\* 401 x 401 points, the panels at 500, 3000, 5500 and 8000 m.
C16_Witness ==
  /\ cell = "grid_plotted"
  /\ NotebookLimits /\ res = [h |-> 500, v |-> 500]
  /\ shape = [nz |-> 16, ny |-> 401, nx |-> 401]
  /\ cappi.z[6] = 3000 /\ cappi.z[16] = 8000
  /\ cappi.x[1] = -100000 /\ cappi.x[2] = -99500 /\ cappi.x[401] = 100000
  /\ shown = <<500, 3000, 5500, 8000>>

\* The volumes of p and q have the same shape and hold the same column at
\* cell c.
SameColumn(p, q, c) ==
  /\ Len(grid[p]) = Len(grid[q])
  /\ Column(grid[p], c) = Column(grid[q], c)

\* C21: horizontal cells are aggregated independently: for two grids of
\* the same shape and altitudes that agree on the whole column at (i, j)
\* but differ arbitrarily, in values or definedness, at other cells, the
\* aggregated surface at (i, j) is the same; the result has one value per
\* horizontal cell.
C21_CellsAggregatedIndependently ==
  \A p, q \in Inv :
    (/\ Returned(p) /\ Returned(q)
     /\ z[p] = z[q] /\ scale[p] = scale[q]) =>
      /\ DOMAIN qpe_ground[p] = Cells
      /\ \A c \in Cells :
           SameColumn(p, q, c) => qpe_ground[p][c] = qpe_ground[q][c]

\* Both executions have returned: their volumes hold the same column at
\* (1, 1), 10 at the lowest level and undefined above, the first volume is
\* undefined everywhere at (1, 2) and the second holds 10 everywhere
\* there; the surfaces agree at (1, 1) and differ at (1, 2).
C21_Witness ==
  /\ Returned("a") /\ Returned("b")
  /\ SameColumn("a", "b", <<1, 1>>)
  /\ grid["a"][1][<<1, 1>>] = Num(10) /\ Undefined("a", 2, <<1, 1>>)
  /\ \A k \in 1..Len(grid["a"]) :
       Undefined("a", k, <<1, 2>>) /\ grid["b"][k][<<1, 2>>] = Num(10)
  /\ qpe_ground["a"][<<1, 1>>] = qpe_ground["b"][<<1, 1>>]
  /\ qpe_ground["a"][<<1, 1>>].n > 0
  /\ qpe_ground["a"][<<1, 2>>] # qpe_ground["b"][<<1, 2>>]

\* The largest defined value of the column of p at cell c, 0 if there is
\* none.
RECURSIVE MaxDefined(_, _, _)
MaxDefined(p, c, k) ==
  IF k = 0 THEN 0
  ELSE LET m == MaxDefined(p, c, k - 1)
       IN  IF ~Undefined(p, k, c) /\ grid[p][k][c].v > m THEN grid[p][k][c].v ELSE m

\* Every defined value of the volume of p is non-negative.
NonNegative(p) ==
  \A k \in 1..Len(grid[p]) : \A c \in Cells :
    ~Undefined(p, k, c) => grid[p][k][c].v >= 0

\* The column of q at cell c is the column of p with some undefined
\* entries replaced by non-negative values.
FilledIn(p, q, c) ==
  /\ Len(grid[p]) = Len(grid[q])
  /\ \A k \in 1..Len(grid[p]) :
       IF Undefined(p, k, c)
         THEN Undefined(q, k, c) \/ grid[q][k][c].v >= 0
         ELSE grid[q][k][c] = grid[p][k][c]

\* The surface value of p at c over the common denominator, the sum of the
\* weights: the numerator the reduced fraction stands for.
OverTotal(p, c) ==
  qpe_ground[p][c].n
    * (WeightSumOver(weighting[p], 1..Len(weighting[p]), Len(weighting[p]))
         \div qpe_ground[p][c].d)

\* C22: for a grid whose defined values are all non-negative, nz >= 1 and
\* scale > 0, every surface value lies between 0 and the largest defined
\* value of its column (0 for an all-undefined column); replacing an
\* undefined entry by a non-negative value never decreases the surface
\* value of that cell.
C22_SurfaceBoundedAndMonotoneInFilling ==
  /\ \A p \in Inv :
       (Returned(p) /\ ValidCall(p) /\ NonNegative(p)) =>
         \A c \in Cells :
           /\ qpe_ground[p][c].k = "num"
           /\ qpe_ground[p][c].d > 0
           /\ qpe_ground[p][c].n >= 0
           /\ qpe_ground[p][c].n
                <= MaxDefined(p, c, Len(grid[p])) * qpe_ground[p][c].d
  /\ \A p, q \in Inv :
       (/\ Returned(p) /\ Returned(q)
        /\ ValidCall(p) /\ ValidCall(q)
        /\ NonNegative(p) /\ NonNegative(q)
        /\ z[p] = z[q] /\ scale[p] = scale[q]) =>
         \A c \in Cells :
           FilledIn(p, q, c) =>
             /\ qpe_ground[p][c].k = "num" /\ qpe_ground[q][c].k = "num"
             /\ OverTotal(p, c) <= OverTotal(q, c)

\* Both executions have returned: at cell (1, 2) the first volume holds 10
\* at the lowest level and is undefined above, the second holds 10 at
\* every level; the first surface value is positive and below 10, the
\* second is 10.
C22_Witness ==
  /\ Returned("a") /\ Returned("b")
  /\ ValidCall("a") /\ ValidCall("b")
  /\ Len(grid["a"]) >= 2
  /\ grid["a"][1][<<1, 2>>] = Num(10)
  /\ \A k \in 2..Len(grid["a"]) : Undefined("a", k, <<1, 2>>)
  /\ \A k \in 1..Len(grid["b"]) : grid["b"][k][<<1, 2>>] = Num(10)
  /\ FilledIn("a", "b", <<1, 2>>)
  /\ qpe_ground["a"][<<1, 2>>].n > 0
  /\ OverTotal("a", <<1, 2>>) < OverTotal("b", <<1, 2>>)
  /\ qpe_ground["b"][<<1, 2>>] = Frac(10, 1)

====
